---- MODULE Spec2Model ----
(***************************************************************************)
(* A model of the sweetpalma/ml repository: the GitHub Pages deploy        *)
(* workflow (src/unnamed/part_000) and the sentiment notebooks             *)
(* (src/sentiment/04-lstm.ipynb, which holds the LSTM notebook and, from   *)
(* line 520 on, the logistic-regression notebook; and                      *)
(* src/sentiment/05-roberta.ipynb).                                        *)
(*                                                                         *)
(* Independent parts, each with a specification of its own:                *)
(*   SpecCI      the workflow: events, runs, the concurrency group, steps  *)
(*   SpecNb      the three notebooks run top to bottom in fresh kernels    *)
(*   SpecFit     model.fit of the LSTM notebook with its EarlyStopping     *)
(*   SpecSearch  RandomizedSearchCV.fit of the logistic-regression notebook*)
(*   SpecText    the text path of the LSTM notebook                        *)
(*   SpecTokenize  tokenize of the transformer notebook                    *)
(*   SpecSteps   the optimizer schedule and the steps of the transformer   *)
(*               notebook's model.fit                                      *)
(*   SpecPrep    the data-preparation cell of the LSTM notebook, value by  *)
(*               value                                                     *)
(***************************************************************************)
EXTENDS Integers, Sequences, FiniteSets, TLC

VARIABLES
  \* ---- workflow
  events,      \* the repository events seen so far, in order
  runs,        \* the workflow runs created so far, in order of creation
  artifacts,   \* the artifacts uploaded so far: [run, name, content]
  site,        \* the deployment the pages site serves: [run, artifact]
  \* ---- notebooks (one kernel per notebook)
  pc,          \* pc[nb]: index of the next code cell to execute
  env,         \* env[nb]: the kernel namespace, bound name -> abstract value
  status,      \* status[nb]: "running", "error" or "done"
  log,         \* log[nb]: the stages completed so far, in order
  report,      \* report[nb]: what the printed classification report was computed from
  execCount,   \* execCount[nb][c]: how often code cell c was executed
  raisedAt,    \* raisedAt[nb]: the first cell in which a failure was raised (0: none)
  raisedKind,  \* raisedKind[nb]: the exception that failure raised ("": none)
  dropout,     \* dropout[nb]: dropout rates (percent) of config, layers and training
  \* ---- LSTM fit with EarlyStopping
  epoch,         \* epochs run so far
  wait,          \* EarlyStopping.wait
  best,          \* EarlyStopping.best (-1: None)
  best_epoch,    \* EarlyStopping.best_epoch (1-based; 0: none)
  best_weights,  \* EarlyStopping.best_weights: the epoch they were taken after (0: None)
  weights,       \* the model's weights: the epoch they were trained up to (0: untrained)
  stop_training, \* model.stop_training
  fitState,      \* "training" or "returned"
  lastImproved,  \* observer: the epoch at which val_accuracy last exceeded all before
  seenMax,       \* observer: the highest val_accuracy seen so far (-1: none)
  \* ---- randomized search
  rng,         \* state of the sampler's random stream
  draws,       \* number of draws the sampler has made
  sampled,     \* grid indices sampled so far, in order
  nextTask,    \* number of (candidate, fold) fits dispatched so far
  inFlight,    \* dispatched fits that have not completed
  searchState, \* "new", "sampling", "fitting", "done", "refit" or "reported"
  random_state,    \* the seed the search was begun with
  results,         \* fit -> its test score, as the parallel call returns them
  best_index_,     \* cv.best_index_ (1-based; 0: not set)
  best_params_,    \* cv.best_params_
  best_estimator_, \* cv.best_estimator_: its parameters and what it was fitted on
  prediction,      \* what the report of cell 86b04d1e is computed from
  \* ---- the text path of the LSTM notebook, and tokenize of the transformer notebook
  df,          \* the dataset's texts, each a sequence of words
  testIdx,     \* the rows of df that train_test_split put in the test split
  word_index,  \* tokenizer.word_index: the words in the order of their ids
  x_train,     \* row of df in the training split -> its padded id sequence
  x_test,      \* row of df in the test split -> its padded id sequence
  wv,          \* the name wv as cell 2e222766 found it in the kernel
  executed,    \* the statements executed so far, in order
  textPc,      \* the next cell of the text path, "done" or "error"
  rx,          \* the rows tokenize returned in the transformer notebook
  \* ---- the optimizer schedule and fit of the transformer notebook
  n_texts,          \* len(x_train['input_ids'])
  num_train_steps,  \* the num_train_steps given to create_optimizer
  num_warmup_steps, \* the num_warmup_steps given to create_optimizer
  iterations,       \* optimizer.iterations: the optimizer steps taken so far
  fit_epoch,        \* epochs of model.fit completed so far
  seen,             \* training samples of the current epoch already in a batch
  stepsPc,          \* "optimizer" (cell 23119738 next), "fit" or "returned"
  \* ---- the data-preparation cell of the LSTM notebook
  csv,         \* the records of twitter_training.csv, as the file holds them
  frame,       \* df as cell ebf07db0 leaves it: rows [index, sentiment, text]
  prepPc       \* "load" (cell ebf07db0 next) or "done"

varsCI == <<events, runs, artifacts, site>>
varsNb == <<pc, env, status, log, report, execCount, raisedAt, raisedKind, dropout>>
varsFit == <<epoch, wait, best, best_epoch, best_weights, weights, stop_training, fitState,
             lastImproved, seenMax>>
varsSearch == <<rng, draws, sampled, nextTask, inFlight, searchState, random_state,
                results, best_index_, best_params_, best_estimator_, prediction>>
\* What the search leaves alone after its fits are done / before they are.
selection == <<best_index_, best_params_, best_estimator_, prediction>>
varsText == <<df, testIdx, word_index, x_train, x_test, wv, executed, textPc, rx>>
varsSteps == <<n_texts, num_train_steps, num_warmup_steps, iterations, fit_epoch, seen,
               stepsPc>>
varsPrep == <<csv, frame, prepPc>>
vars == <<varsCI, varsNb, varsFit, varsSearch, varsText, varsSteps, varsPrep>>

\* What a step of one part leaves alone: the other parts.
restOfCI == <<varsNb, varsFit, varsSearch, varsText, varsSteps, varsPrep>>
restOfNb == <<varsCI, varsFit, varsSearch, varsText, varsSteps, varsPrep>>
restOfFit == <<varsCI, varsNb, varsSearch, varsText, varsSteps, varsPrep>>
restOfSearch == <<varsCI, varsNb, varsFit, varsText, varsSteps, varsPrep>>
restOfText == <<varsCI, varsNb, varsFit, varsSearch, varsSteps, varsPrep>>
restOfSteps == <<varsCI, varsNb, varsFit, varsSearch, varsText, varsPrep>>
restOfPrep == <<varsCI, varsNb, varsFit, varsSearch, varsText, varsSteps>>

Range(s) == {s[i] : i \in DOMAIN s}

(***************************************************************************)
(*                 THE WORKFLOW  (src/unnamed/part_000)                    *)
(***************************************************************************)

\* Bound: the number of repository events a behaviour holds.
MaxEvents == 3

\* The events the platform can raise and the branches they can name.
EventTypes == {"push", "pull_request"}
Branches == {"master", "main"}

\* on: push: branches: [master]
OnEvent == "push"
OnBranchesAny == Branches
OnBranches == {"master"}

Triggers(ev) == ev.type = OnEvent /\ ev.branch \in OnBranches

\* concurrency: group: 'pages', cancel-in-progress: false
ConcurrencyGroupPerRun(r) == r
ConcurrencyGroup(r) == "pages"
CancelInProgressTrue == TRUE
CancelInProgress == FALSE

\* jobs.deploy.steps, in the order of the file
Steps == << "checkout", "configure-pages", "setup-node", "install-mystmd",
            "build-html", "upload-pages-artifact", "deploy-pages" >>
NSteps == Len(Steps)
CheckoutStep == 1
BuildStep == 5
UploadStep == 6
DeployStep == 7

\* No step of the file has an `if:` key, so each has the default success();
\* none has continue-on-error.
StepIfAlways(i) == IF i = DeployStep THEN "always" ELSE "success"
StepIf(i) == "success"
ContinueOnError(i) == FALSE

StepStates == {"waiting", "running", "success", "failure", "skipped"}

\* permissions: contents: read, pages: write, id-token: write. A scope the
\* key does not name gets no access.
Scopes == {"contents", "pages", "id-token", "actions", "packages"}
PermissionsContentsWrite ==
  [s \in {"contents", "pages", "id-token"} |-> "write"]
Permissions ==
  [s \in {"contents", "pages", "id-token"} |->
     IF s = "contents" THEN "read" ELSE "write"]
GithubToken == [s \in Scopes |-> IF s \in DOMAIN Permissions THEN Permissions[s] ELSE "none"]

\* The commit a push event carries (github.sha), one per event; 0: none.
Commit(e) == e
NoCommit == 0

\* myst build --html writes the site to _build/html; upload-pages-artifact
\* uploads `path` under its default artifact name.
BuildOutput == "./_build/html"
UploadPath == "./_build/html"
ArtifactName == "github-pages"
NoDir == [path |-> "", content |-> NoCommit]
NoSite == [run |-> 0, artifact |-> [run |-> 0, name |-> "", content |-> NoCommit]]

\* A run: its event, its state, its next step, its steps' states, the token
\* its job holds, and its runner's workspace (the commit checked out and the
\* directory the build wrote).
NewRun(e) == [ event |-> e, state |-> "pending", cur |-> 1,
               steps |-> [i \in 1..NSteps |-> "waiting"],
               token |-> GithubToken, workspace |-> NoCommit, dir |-> NoDir ]

\* deploy-pages publishes the artifact of the run it is a step of.
DeployArtifactOfAnyRun(r) ==
  CHOOSE a \in artifacts : a.name = ArtifactName /\ \A b \in artifacts : a.run <= b.run
DeployArtifact(r) == CHOOSE a \in artifacts : a.name = ArtifactName /\ a.run = r

\* The job's status so far: failure once a step has failed.
JobFailed(run) == \E i \in 1..NSteps : run.steps[i] = "failure" /\ ~ContinueOnError(i)

InProgress == {r \in DOMAIN runs : runs[r].state = "in_progress"}
Pending == {r \in DOMAIN runs : runs[r].state = "pending"}

\* A repository event. An event the `on:` key matches creates a run, which
\* waits on its concurrency group: the platform keeps at most one pending
\* run per group (an older pending run of the group is cancelled), and cancels
\* the group's run in progress only under cancel-in-progress: true.
Event(type, branch) ==
  /\ Len(events) < MaxEvents
  /\ LET ev == [type |-> type, branch |-> branch]
         e == Len(events) + 1
         r == Len(runs) + 1
         old == [q \in DOMAIN runs |->
                   IF /\ ConcurrencyGroup(q) = ConcurrencyGroup(r)
                      /\ \/ runs[q].state = "pending"
                         \/ runs[q].state = "in_progress" /\ CancelInProgress
                   THEN [runs[q] EXCEPT !.state = "cancelled"]
                   ELSE runs[q]]
     IN /\ events' = Append(events, ev)
        /\ runs' = IF Triggers(ev) THEN Append(old, NewRun(e)) ELSE runs
  /\ UNCHANGED <<artifacts, site, restOfCI>>

\* A pending run starts once no run of its concurrency group is in progress.
StartRun(r) ==
  /\ runs[r].state = "pending"
  /\ \A q \in InProgress : ConcurrencyGroup(q) # ConcurrencyGroup(r)
  /\ runs' = [runs EXCEPT ![r].state = "in_progress"]
  /\ UNCHANGED <<events, artifacts, site, restOfCI>>

\* The runner takes the job's next step: it runs if its condition holds
\* (success(): no earlier step has failed; always(): in any case), else it is skipped.
StepStart(r) ==
  /\ runs[r].state = "in_progress"
  /\ runs[r].cur <= NSteps
  /\ runs[r].steps[runs[r].cur] = "waiting"
  /\ LET i == runs[r].cur
         go == StepIf(i) = "always" \/ ~JobFailed(runs[r])
     IN runs' = IF go
                THEN [runs EXCEPT ![r].steps[i] = "running"]
                ELSE [runs EXCEPT ![r].steps[i] = "skipped", ![r].cur = i + 1]
  /\ UNCHANGED <<events, artifacts, site, restOfCI>>

\* The running step ends, successfully or not. A successful checkout leaves
\* the event's commit in the workspace, a successful build the site built
\* from the workspace in BuildOutput; a successful upload stores the content
\* of UploadPath as an artifact of the run; a successful deploy publishes.
StepEnd(r, ok) ==
  /\ runs[r].state = "in_progress"
  /\ runs[r].cur <= NSteps
  /\ runs[r].steps[runs[r].cur] = "running"
  /\ LET i == runs[r].cur
         run == [runs[r] EXCEPT !.steps[i] = IF ok THEN "success" ELSE "failure",
                                !.cur = i + 1]
         uploaded == [run |-> r, name |-> ArtifactName,
                      content |-> IF runs[r].dir.path = UploadPath
                                  THEN runs[r].dir.content ELSE NoCommit]
     IN /\ runs' = [runs EXCEPT ![r] =
                      IF ok /\ i = CheckoutStep
                      THEN [run EXCEPT !.workspace = Commit(run.event)]
                      ELSE IF ok /\ i = BuildStep
                      THEN [run EXCEPT !.dir = [path |-> BuildOutput,
                                                content |-> run.workspace]]
                      ELSE run]
        /\ artifacts' = IF ok /\ i = UploadStep THEN artifacts \cup {uploaded}
                        ELSE artifacts
        /\ site' = IF ok /\ i = DeployStep
                   THEN [run |-> r, artifact |-> DeployArtifact(r)]
                   ELSE site
  /\ UNCHANGED <<events, restOfCI>>

\* After its last step the run completes and leaves its concurrency group.
Finish(r) ==
  /\ runs[r].state = "in_progress"
  /\ runs[r].cur > NSteps
  /\ runs' = [runs EXCEPT ![r].state = "completed"]
  /\ UNCHANGED <<events, artifacts, site, restOfCI>>

NextCI ==
  \/ \E t \in EventTypes, b \in Branches : Event(t, b)
  \/ \E r \in DOMAIN runs : StartRun(r)
  \/ \E r \in DOMAIN runs : StepStart(r)
  \/ \E r \in DOMAIN runs, ok \in BOOLEAN : StepEnd(r, ok)
  \/ \E r \in DOMAIN runs : Finish(r)

(***************************************************************************)
(*                 THE NOTEBOOKS  (src/sentiment/*.ipynb)                  *)
(***************************************************************************)

Notebooks == {"lstm", "logreg", "roberta"}

\* An abstract value: m says what kind of object it is ("data", "built",
\* "fitted", "obj"), d which part of the dataset it stems from ("all",
\* "train", "test", "example", "-").
V(m, d) == [m |-> m, d |-> d]
Unbound == V("unbound", "unbound")
Obj == V("obj", "-")

\* Bindings a statement makes: <<name, kind, a, b>>.
Imp(n) == <<n, "lit", "obj", "-">>
Lit(n, m, d) == <<n, "lit", m, d>>
Copy(n, src) == <<n, "copy", src, "">>
FitOn(n, src) == <<n, "fiton", src, "">>
Pred(n, model, data) == <<n, "pred", model, data>>

\* A statement: the names it reads, the bindings it makes, the stage it
\* completes (op), its effect on the dropout rates (fx), the names whose
\* fitted attributes it reads (fitted), the two names a report is computed
\* from (a), and whether the library call in it can raise (lib).
St(reads, binds) ==
  [reads |-> reads, binds |-> binds, op |-> "", fx |-> "", fitted |-> {},
   a |-> << >>, lib |-> FALSE]
Stage(s, op) == [s EXCEPT !.op = op]
CanRaise(s) == [s EXCEPT !.lib = TRUE]
Fx(s, fx) == [s EXCEPT !.fx = fx]
NeedsFitted(s, ns) == [s EXCEPT !.fitted = ns]
ReportOf(s, yTrue, yPred) == [s EXCEPT !.op = "evaluate", !.a = <<yTrue, yPred>>]

Cell(id, stmts) == [id |-> id, capture |-> FALSE, stmts |-> stmts]
\* A cell under the %%capture magic: the magic runs the cell body with the
\* shell's run_cell, which reports an exception and returns normally.
CaptureCell(id, stmts) == [id |-> id, capture |-> TRUE, stmts |-> stmts]

\* ---- 04-lstm.ipynb, first notebook of the file (lines 1-518)
LstmCells == <<
  Cell("ebf07db0", <<
    St({}, {Imp("kagglehub")}),
    CanRaise(Stage(St({"kagglehub"}, {Lit("df", "data", "all")}), "load")),
    St({"df"}, {Copy("df", "df")}),
    St({"display", "df"}, {}) >>),
  Cell("abad53d3", <<
    St({}, {Imp("train_test_split")}),
    St({"train_test_split", "df"},
       {Lit("train", "data", "train"), Lit("test", "data", "test")}),
    St({"train", "test"},
       {Copy("x_train", "train"), Copy("y_train", "train"),
        Copy("x_test", "test"), Copy("y_test", "test")}) >>),
  Cell("d11f5396", <<
    St({}, {Imp("pd"), Imp("LabelBinarizer")}),
    St({"LabelBinarizer"}, {Lit("encoder", "built", "-")}),
    St({"encoder", "df"}, {FitOn("encoder", "df")}),
    St({"pd", "encoder", "y_train"},
       {FitOn("encoder", "y_train"), Copy("y_train_encoded", "y_train")}),
    St({"pd", "encoder", "y_test"}, {Copy("y_test_encoded", "y_test")}) >>),
  Cell("718fb948", <<
    St({}, {Imp("Tokenizer")}),
    St({"Tokenizer"}, {Lit("tokenizer", "built", "-")}),
    Stage(St({"tokenizer", "df"}, {FitOn("tokenizer", "df")}), "vectorize"),
    St({"display", "tokenizer"}, {}) >>),
  Cell("a705e757", <<
    St({}, {Imp("maxlen")}),
    St({}, {Imp("pad_sequences")}),
    St({"pad_sequences", "tokenizer", "x_train", "maxlen"}, {Copy("x_train", "x_train")}),
    St({"pad_sequences", "tokenizer", "x_test", "maxlen"}, {Copy("x_test", "x_test")}),
    St({"display", "x_train"}, {}) >>),
  Cell("2e222766", <<
    St({"len", "tokenizer", "wv"}, {Imp("embedding_matrix_shape")}),
    St({"np", "embedding_matrix_shape"}, {Imp("embedding_matrix")}),
    St({"tokenizer", "wv", "np", "embedding_matrix"},
       {Imp("word"), Imp("index"), Imp("embedding_matrix")}) >>),
  Cell("8333ee3c", <<
    St({}, {Imp("layers"), Imp("Sequential")}),
    St({"len", "encoder"}, {Imp("num_classes")}),
    Stage(St({"Sequential", "layers", "embedding_matrix", "embedding_matrix_shape",
              "num_classes"}, {Lit("model", "built", "-")}), "instantiate") >>),
  Cell("b8647282", <<
    St({}, {Imp("EarlyStopping")}),
    St({"EarlyStopping"}, {Imp("earlystop")}) >>),
  Cell("3be945fe", <<
    St({}, {Imp("Adam")}),
    St({"Adam"}, {Imp("optimizer")}) >>),
  Cell("4844a91a", <<
    St({"model", "optimizer"}, {}),
    CanRaise(Stage(St({"model", "x_train", "y_train_encoded", "earlystop"},
                      {FitOn("model", "x_train")}), "fit")) >>),
  Cell("47ff80d1", <<
    St({}, {Imp("classification_report")}),
    CanRaise(St({"model", "x_test"}, {Pred("y_pred_probs", "model", "x_test")})),
    St({"np", "y_pred_probs"}, {Copy("y_pred_labels", "y_pred_probs")}),
    St({"np", "y_test_encoded"}, {Copy("y_true_labels", "y_test_encoded")}),
    ReportOf(St({"print", "classification_report", "y_true_labels", "y_pred_labels",
                 "encoder"}, {}), "y_true_labels", "y_pred_labels") >>)
>>

\* ---- 04-lstm.ipynb, second notebook of the file (lines 520-1025):
\* the logistic-regression notebook
LogregCells == <<
  Cell("dfa5bafd", <<
    St({}, {Imp("load_dataset")}),
    CanRaise(Stage(St({"load_dataset"}, {Lit("ds", "data", "all")}), "load")),
    St({"ds"}, {Lit("train", "data", "train"), Lit("test", "data", "test")}),
    St({"display", "train"}, {}),
    St({"train", "test"},
       {Copy("x_train", "train"), Copy("y_train", "train"),
        Copy("x_test", "test"), Copy("y_test", "test")}) >>),
  Cell("d9438a3e", <<
    St({}, {Imp("CountVectorizer")}),
    St({"CountVectorizer"}, {Lit("vectorizer", "built", "-")}) >>),
  Cell("d8640097", <<
    Stage(St({"vectorizer"},
             {Lit("vectorizer", "fitted", "example"), Lit("example_vector", "data", "example")}),
          "vectorize"),
    St({"display", "vectorizer", "example_vector"}, {}) >>),
  Cell("f88c46dd", <<
    St({}, {Imp("StandardScaler")}),
    St({"StandardScaler"}, {Lit("scaler", "built", "-")}) >>),
  Cell("4687d9be", <<
    St({}, {Imp("Pipeline"), Imp("LogisticRegression")}),
    St({"LogisticRegression"}, {Lit("classifier", "built", "-")}),
    Stage(St({"Pipeline", "vectorizer", "scaler", "classifier"},
             {Lit("pipeline", "built", "-")}), "instantiate") >>),
  Cell("db445460", <<
    St({}, {Imp("param_grid")}) >>),
  CaptureCell("11105c57", <<
    St({}, {Imp("parallel_backend")}),
    St({}, {Imp("RandomizedSearchCV")}),
    St({"RandomizedSearchCV", "pipeline", "param_grid"}, {Lit("cv", "built", "-")}),
    CanRaise(Stage(St({"cv", "x_train", "y_train"}, {FitOn("cv", "x_train")}), "fit")) >>),
  Cell("86b04d1e", <<
    St({}, {Imp("classification_report")}),
    CanRaise(NeedsFitted(St({"cv", "x_test"}, {Pred("prediction", "cv", "x_test")}), {"cv"})),
    ReportOf(St({"print", "classification_report", "y_test", "prediction", "ds"}, {}),
             "y_test", "prediction") >>),
  Cell("286658e5", <<
    St({}, {Imp("DataFrame")}),
    NeedsFitted(St({"DataFrame", "cv"}, {Imp("best_params_table")}), {"cv"}),
    Stage(St({"display", "best_params_table"}, {}), "table") >>)
>>

\* ---- 05-roberta.ipynb
RobertaCells == <<
  Cell("be41062a", <<
    St({}, {Imp("load_dataset"), Imp("np")}),
    CanRaise(Stage(St({"load_dataset"},
                      {Lit("train", "data", "train"), Lit("test", "data", "test")}), "load")),
    St({"train"}, {Imp("class_names")}),
    St({"np", "train", "test"},
       {Copy("x_train", "train"), Copy("y_train", "train"),
        Copy("x_test", "test"), Copy("y_test", "test")}) >>),
  Cell("90c891ae", <<
    St({}, {Imp("RobertaTokenizerFast")}),
    CanRaise(St({"RobertaTokenizerFast"}, {Lit("tokenizer", "fitted", "-")})),
    St({}, {Imp("tokenize")}) >>),
  Cell("0c960fc6", <<
    Stage(St({"tokenize", "tokenizer", "dict", "x_train"}, {Copy("x_train", "x_train")}),
          "vectorize"),
    St({"tokenize", "tokenizer", "dict", "x_test"}, {Copy("x_test", "x_test")}) >>),
  Cell("1445e63e", <<
    St({}, {Imp("RobertaForSequenceClassification"), Imp("logging"), Imp("set_seed")}),
    St({"logging", "set_seed"}, {}),
    CanRaise(Fx(Stage(St({"RobertaForSequenceClassification", "len", "class_names"},
                         {Lit("model", "built", "-")}), "instantiate"),
                "from_pretrained")) >>),
  Cell("23119738", <<
    St({}, {Imp("create_optimizer")}),
    St({}, {Imp("epochs"), Imp("validation_split"), Imp("batch_size")}),
    St({"epochs", "len", "x_train", "validation_split", "batch_size"},
       {Imp("num_train_steps")}),
    St({"create_optimizer", "int", "num_train_steps"}, {Imp("optimizer"), Imp("_")}) >>),
  Cell("fdeac0a1", <<
    Fx(St({"model"}, {}), "set_attention_probs_dropout_prob"),
    Fx(St({"model"}, {}), "set_hidden_dropout_prob") >>),
  Cell("f0ede7e9", <<
    St({}, {Imp("device")}),
    St({"device", "model", "optimizer"}, {}),
    CanRaise(Fx(Stage(St({"model", "x_train", "y_train", "epochs", "batch_size",
                          "validation_split"},
                         {FitOn("model", "x_train"), Imp("history")}), "fit"),
                "train")) >>),
  Cell("455bba44", <<
    St({}, {Imp("classification_report")}),
    CanRaise(St({"device", "model", "x_test"}, {Pred("y_pred_values", "model", "x_test")})),
    St({"np", "y_pred_values"}, {Copy("y_pred_labels", "y_pred_values")}),
    ReportOf(St({"print", "classification_report", "y_test", "y_pred_labels",
                 "class_names"}, {}), "y_test", "y_pred_labels") >>),
  Cell("11fa607e", <<
    St({}, {Imp("plt")}),
    Stage(St({"plt", "history"}, {}), "plot") >>)
>>

\* Variants: the transformer notebook with model.fit moved behind the report,
\* and without its last cell.
CellsReportBeforeFit(nb) ==
  CASE nb = "lstm" -> LstmCells
    [] nb = "logreg" -> LogregCells
    [] nb = "roberta" ->
         [RobertaCells EXCEPT ![7].stmts = SubSeq(@, 1, 2),
                              ![8].stmts = @ \o <<RobertaCells[7].stmts[3]>>]
CellsWithoutLast(nb) ==
  CASE nb = "lstm" -> LstmCells
    [] nb = "logreg" -> LogregCells
    [] nb = "roberta" -> SubSeq(RobertaCells, 1, Len(RobertaCells) - 1)
\* The code cells of a notebook, in the order of the file.
Cells(nb) ==
  CASE nb = "lstm" -> LstmCells
    [] nb = "logreg" -> LogregCells
    [] nb = "roberta" -> RobertaCells

\* The names a fresh kernel binds. A namespace maps the names bound so far
\* to their values.
Builtins == {"display", "print", "len", "int", "dict"}
FreshKernel == [n \in Builtins |-> Obj]

\* What the checkpoint's config may hold for the two dropout probabilities,
\* in percent (distilroberta-base ships 0.1).
PretrainedDropoutProbs == {0, 10}
\* model.config.attention_probs_dropout_prob = 0.3; model.config.hidden_dropout_prob = 0.3
AttentionProbsDropoutProb == 30
HiddenDropoutProb == 30

Rates(a, h) == [attention |-> a, hidden |-> h]
NoRates == Rates(-1, -1)
NoModel == [config |-> NoRates, layers |-> NoRates, trained |-> NoRates]

NoReport == [true |-> Unbound, pred |-> Unbound]

\* The value a binding gives its name in namespace e.
Val(e, b) ==
  CASE b[2] = "lit" -> V(b[3], b[4])
    [] b[2] = "copy" -> e[b[3]]
    [] b[2] = "fiton" -> V("fitted", e[b[3]].d)
    [] b[2] = "pred" -> V(e[b[3]].m, e[b[4]].d)

\* What a statement raises by itself ("": nothing): NameError on a name that
\* is not bound, AttributeError on a fitted attribute (best_estimator_,
\* best_params_) of an object never fitted.
Raises(e, s) ==
  IF \E n \in s.reads : n \notin DOMAIN e THEN "NameError"
  ELSE IF \E n \in s.fitted : e[n].m # "fitted" THEN "AttributeError"
  ELSE ""

\* from_pretrained builds the config from the checkpoint and the layers from
\* that config: each Dropout layer takes its rate when it is constructed.
\* The assignments of cell fdeac0a1 write the config object; fit trains the
\* layers as they are.
ApplyFx(d, fx, p) ==
  CASE fx = "from_pretrained" -> [d EXCEPT !.config = Rates(p, p), !.layers = Rates(p, p)]
    [] fx = "set_attention_probs_dropout_prob" ->
         [d EXCEPT !.config.attention = AttentionProbsDropoutProb]
    [] fx = "set_hidden_dropout_prob" -> [d EXCEPT !.config.hidden = HiddenDropoutProb]
    [] fx = "train" -> [d EXCEPT !.trained = d.layers]
    [] OTHER -> d

\* One statement that does not raise: its bindings (all evaluated in the
\* namespace before it), its stage, its report, its effect on the dropout rates.
ExecStmt(acc, s, p) ==
  [ env |-> [n \in DOMAIN acc.env \cup {b[1] : b \in s.binds} |->
               IF \E b \in s.binds : b[1] = n
               THEN Val(acc.env, CHOOSE b \in s.binds : b[1] = n)
               ELSE acc.env[n]],
    ops |-> IF s.op = "" THEN acc.ops ELSE Append(acc.ops, s.op),
    rep |-> IF s.op = "evaluate"
            THEN [true |-> acc.env[s.a[1]], pred |-> acc.env[s.a[2]]]
            ELSE acc.rep,
    drop |-> ApplyFx(acc.drop, s.fx, p),
    raised |-> "" ]

\* The statements of a cell from the i-th on, in order, up to the first that
\* raises: by itself, or because the library call of statement failAt fails.
RECURSIVE ExecFrom(_, _, _, _, _)
ExecFrom(acc, stmts, i, failAt, p) ==
  IF i > Len(stmts) THEN acc
  ELSE IF Raises(acc.env, stmts[i]) # ""
       THEN [acc EXCEPT !.raised = Raises(acc.env, stmts[i])]
  ELSE IF i = failAt
       THEN [acc EXCEPT !.raised = "LibraryError"]
       ELSE ExecFrom(ExecStmt(acc, stmts[i], p), stmts, i + 1, failAt, p)

\* Whether an exception raised in the cell ends the run: under %%capture
\* the magic returns normally, so the cell counts as executed without error.
StopsRun(c, raised) == raised # "" /\ ~c.capture

\* The outcomes a cell can have: 0, no library call of it fails; i, the
\* library call of its statement i fails.
FailPoints(nb) ==
  IF status[nb] = "running" /\ pc[nb] <= Len(Cells(nb))
  THEN {0} \cup {i \in DOMAIN Cells(nb)[pc[nb]].stmts : Cells(nb)[pc[nb]].stmts[i].lib}
  ELSE {}

\* The kernel executes the next code cell of notebook nb (Run All, top to
\* bottom): failAt = 0 when no library call fails, else the failing statement.
RunCell(nb, failAt, p) ==
  /\ status[nb] = "running"
  /\ pc[nb] <= Len(Cells(nb))
  /\ LET c == Cells(nb)[pc[nb]]
         r == ExecFrom([env |-> env[nb], ops |-> log[nb], rep |-> report[nb],
                        drop |-> dropout[nb], raised |-> ""],
                       c.stmts, 1, failAt, p)
         stop == StopsRun(c, r.raised)
     IN /\ env' = [env EXCEPT ![nb] = r.env]
        /\ log' = [log EXCEPT ![nb] = r.ops]
        /\ report' = [report EXCEPT ![nb] = r.rep]
        /\ dropout' = [dropout EXCEPT ![nb] = r.drop]
        /\ execCount' = [execCount EXCEPT ![nb][pc[nb]] = @ + 1]
        /\ raisedAt' = [raisedAt EXCEPT ![nb] =
                          IF r.raised # "" /\ @ = 0 THEN pc[nb] ELSE @]
        /\ raisedKind' = [raisedKind EXCEPT ![nb] =
                            IF r.raised # "" /\ raisedAt[nb] = 0 THEN r.raised ELSE @]
        /\ status' = [status EXCEPT ![nb] =
                        IF stop THEN "error"
                        ELSE IF pc[nb] = Len(Cells(nb)) THEN "done" ELSE "running"]
        /\ pc' = [pc EXCEPT ![nb] = IF stop THEN @ ELSE @ + 1]
  /\ UNCHANGED restOfNb

NextNb == \E nb \in Notebooks, p \in PretrainedDropoutProbs :
            \E failAt \in FailPoints(nb) : RunCell(nb, failAt, p)

(***************************************************************************)
(*      model.fit WITH EarlyStopping  (04-lstm.ipynb, lines 364, 440)      *)
(***************************************************************************)

\* EarlyStopping(monitor='val_accuracy', patience=5, restore_best_weights=True)
Patience == 5
\* model.fit(..., epochs=35, ..., callbacks=[earlystop])
Epochs == 35

\* EarlyStopping(..., restore_best_weights=True); the mutant is the default
\* of the argument.
RestoreBestWeightsDefault == FALSE
restore_best_weights == TRUE

\* Bound: val_accuracy takes the levels 0..MaxAcc.
MaxAcc == 6

\* monitor val_accuracy, mode auto: higher is better, min_delta 0; anything
\* improves on no value yet.
IsImprovementOrEqual(current, reference) == reference = -1 \/ current >= reference
IsImprovement(current, reference) == reference = -1 \/ current > reference

\* One pass of the fit loop: the epoch is trained and validated (val_accuracy
\* v), EarlyStopping.on_epoch_end runs, and the loop ends when the callback
\* has set stop_training or the last epoch has run.  on_epoch_end keeps a
\* copy of the weights of an improving epoch; when the loop ends, however it
\* ends, on_train_end sets the model's weights to that copy.
TrainEpoch(v) ==
  /\ fitState = "training"
  /\ LET improved == IsImprovement(v, best)
         stop == ~improved /\ wait + 1 >= Patience /\ epoch > 0
     IN /\ epoch' = epoch + 1
        /\ wait' = IF improved THEN 0 ELSE wait + 1
        /\ best' = IF improved THEN v ELSE best
        /\ best_epoch' = IF improved THEN epoch + 1 ELSE best_epoch
        /\ best_weights' = IF improved /\ restore_best_weights THEN epoch + 1
                           ELSE best_weights
        /\ stop_training' = stop
        /\ fitState' = IF stop \/ epoch + 1 >= Epochs THEN "returned" ELSE "training"
        /\ weights' = IF /\ stop \/ epoch + 1 >= Epochs
                         /\ restore_best_weights
                         /\ best_weights' # 0
                      THEN best_weights'
                      ELSE epoch + 1
  /\ seenMax' = IF v > seenMax THEN v ELSE seenMax
  /\ lastImproved' = IF v > seenMax THEN epoch + 1 ELSE lastImproved
  /\ UNCHANGED restOfFit

NextFit == \E v \in 0..MaxAcc : TrainEpoch(v)

(***************************************************************************)
(*   RandomizedSearchCV.fit  (04-lstm.ipynb, second notebook, 805-896)     *)
(***************************************************************************)

\* param_grid; C in tenths, max_df in hundredths
classifier__C == <<1, 10, 100>>
vectorizer__ngram_range == << <<1, 1>>, <<1, 2>> >>
vectorizer__max_df == <<85, 90, 95, 100>>
vectorizer__min_df == <<1, 2, 3, 5>>

GridSize == Len(classifier__C) * Len(vectorizer__ngram_range)
            * Len(vectorizer__max_df) * Len(vectorizer__min_df)

\* RandomizedSearchCV(pipeline, param_grid, random_state=0, n_jobs=-1, verbose=3):
\* n_iter and cv are left at their defaults, which the recorded output shows:
\* "Fitting 5 folds for each of 10 candidates, totalling 50 fits"
n_iter == 10
n_splits == 5

\* The sampler yields min(n_iter, grid size) candidates.
NCandidates == IF GridSize < n_iter THEN GridSize ELSE n_iter
NTasks == NCandidates * n_splits

\* ParameterGrid[ind]: the keys sorted and reversed, so ngram_range cycles
\* fastest, then min_df, max_df, C; each is one divmod of the index.
GridPoint(ind) ==
  LET n1 == Len(vectorizer__ngram_range)
      n2 == Len(vectorizer__min_df)
      n3 == Len(vectorizer__max_df)
      n4 == Len(classifier__C)
  IN [ ngram_range |-> vectorizer__ngram_range[(ind % n1) + 1],
       min_df |-> vectorizer__min_df[((ind \div n1) % n2) + 1],
       max_df |-> vectorizer__max_df[((ind \div (n1 * n2)) % n3) + 1],
       C |-> classifier__C[((ind \div (n1 * n2 * n3)) % n4) + 1] ]

\* The grid as the product of the four lists.
ParamGrid ==
  [ ngram_range : Range(vectorizer__ngram_range), min_df : Range(vectorizer__min_df),
    max_df : Range(vectorizer__max_df), C : Range(classifier__C) ]

\* Bounds: the seeds of the sampler's random stream, and the fits in flight
\* at once (n_jobs=-1: one per processor).
MaxSeed == 2
NWorkers == 2

\* The random stream, as a congruential generator; its values reduced to
\* grid indices collide, as draws from a real stream do.
RngNext(x) == (12 * x + 3) % 127

\* sample_without_replacement keeps the indices it has selected and draws
\* again on one it already holds.
AlreadySelectedNever(sel, j) == FALSE
AlreadySelected(sel, j) == j \in Range(sel)

\* fit seeds the sampler's stream (check_random_state(random_state)).
BeginSearch(seed) ==
  /\ searchState = "new"
  /\ rng' = seed
  /\ random_state' = seed
  /\ searchState' = "sampling"
  /\ UNCHANGED <<draws, sampled, nextTask, inFlight, results, selection, restOfSearch>>

Draw ==
  /\ searchState = "sampling"
  /\ LET x == RngNext(rng)
         j == x % GridSize
         sel == IF AlreadySelected(sampled, j) THEN sampled ELSE Append(sampled, j)
     IN /\ rng' = x
        /\ draws' = draws + 1
        /\ sampled' = sel
        /\ searchState' = IF Len(sel) = NCandidates THEN "fitting" ELSE "sampling"
  /\ UNCHANGED <<nextTask, inFlight, random_state, results, selection, restOfSearch>>

\* Fit t is candidate TaskCandidate(t) on fold TaskFold(t): the tasks are the
\* product of the candidates and the folds, candidate by candidate.
TaskCandidate(t) == ((t - 1) \div n_splits) + 1
TaskFold(t) == ((t - 1) % n_splits) + 1

Dispatch ==
  /\ searchState = "fitting"
  /\ nextTask < NTasks
  /\ Cardinality(inFlight) < NWorkers
  /\ nextTask' = nextTask + 1
  /\ inFlight' = inFlight \cup {nextTask + 1}
  /\ UNCHANGED <<rng, draws, sampled, searchState, random_state, results, selection, restOfSearch>>

\* The fits completed so far, and the candidates' parameters.
Completed == (1..nextTask) \ inFlight
Candidates == [c \in DOMAIN sampled |-> GridPoint(sampled[c])]

\* The test score (in quarters) of a fit: the pipeline with the parameters
\* of grid point ind, trained on the other folds and scored on fold f. The
\* data, the folds and the solver are fixed, so it is a function of the two.
Score(ind, f) == (5 * ind + 2 * f) % 4
NoScore == -1

\* The parallel call returns the fits' results in the order the fits were
\* submitted, whatever the order they complete in.
ResultSlotByCompletion(t) == Cardinality(Completed) + 1
ResultSlot(t) == t

\* A fit completes, in any order among the fits in flight.
Complete(t) ==
  /\ searchState = "fitting"
  /\ t \in inFlight
  /\ inFlight' = inFlight \ {t}
  /\ results' = [results EXCEPT ![ResultSlot(t)] = Score(sampled[TaskCandidate(t)], TaskFold(t))]
  /\ searchState' = IF nextTask = NTasks /\ inFlight' = {} THEN "done" ELSE "fitting"
  /\ UNCHANGED <<rng, draws, sampled, nextTask, random_state, selection, restOfSearch>>

\* mean_test_score of candidate c, times n_splits: the scores of slots
\* (c - 1) * n_splits + 1 .. c * n_splits.
RECURSIVE SumScores(_, _, _)
SumScores(res, c, f) ==
  IF f > n_splits THEN 0 ELSE res[(c - 1) * n_splits + f] + SumScores(res, c, f + 1)

\* best_index_ = rank_test_score.argmin(), ranks by falling mean with ties
\* sharing the lowest rank: the first candidate of the highest mean.
BestIndexLastOnTie(res) ==
  CHOOSE c \in 1..NCandidates : \A d \in 1..NCandidates :
    /\ SumScores(res, d, 1) <= SumScores(res, c, 1)
    /\ SumScores(res, d, 1) = SumScores(res, c, 1) => d <= c
BestIndex(res) ==
  CHOOSE c \in 1..NCandidates : \A d \in 1..NCandidates :
    /\ SumScores(res, d, 1) <= SumScores(res, c, 1)
    /\ SumScores(res, d, 1) = SumScores(res, c, 1) => c <= d

NoParams == [ngram_range |-> << >>, min_df |-> 0, max_df |-> 0, C |-> 0]
NoEstimator == [params |-> NoParams, fitted_on |-> ""]

\* The end of cv.fit (refit=True): the best candidate is selected and a fresh
\* pipeline with its parameters is fitted on all of x_train.
SelectAndRefit ==
  /\ searchState = "done"
  /\ LET b == BestIndex(results)
     IN /\ best_index_' = b
        /\ best_params_' = Candidates[b]
        /\ best_estimator_' = [params |-> Candidates[b], fitted_on |-> "x_train"]
  /\ searchState' = "refit"
  /\ UNCHANGED <<rng, draws, sampled, nextTask, inFlight, random_state, results,
                 prediction, restOfSearch>>

\* Cell 86b04d1e: prediction = cv.best_estimator_.predict(x_test), reported.
ReportCell ==
  /\ searchState = "refit"
  /\ prediction' = [estimator |-> best_estimator_, on |-> "x_test"]
  /\ searchState' = "reported"
  /\ UNCHANGED <<rng, draws, sampled, nextTask, inFlight, random_state, results,
                 best_index_, best_params_, best_estimator_, restOfSearch>>

NextSearch ==
  \/ \E seed \in 0..MaxSeed : BeginSearch(seed)
  \/ Draw
  \/ Dispatch
  \/ \E t \in inFlight : Complete(t)
  \/ SelectAndRefit
  \/ ReportCell

(***************************************************************************)
(*   THE TEXT PATH OF THE LSTM NOTEBOOK  (04-lstm.ipynb, cells 1 to 6)     *)
(***************************************************************************)

\* maxlen = 96
maxlen == 96

\* Bounds: a dataset holds up to MaxTexts texts; a text has 0..MaxShort
\* words, or from maxlen - 1 to maxlen + MaxOver words.
MaxTexts == 2
MaxShort == 2
MaxOver == 1

\* The words texts are made of; Text(n, k) is a text of n words.
Words == <<"good", "bad">>
Text(n, k) == [i \in 1..n |-> Words[((i + k) % Len(Words)) + 1]]
Lengths == (0..MaxShort) \cup ((maxlen - 1)..(maxlen + MaxOver))
Texts == {Text(n, k) : n \in Lengths, k \in 0..(Len(Words) - 1)}
Datasets == UNION {[1..n -> Texts] : n \in 1..MaxTexts}

\* The name wv as the kernel holds it when cell 2e222766 reads it: the
\* notebook never binds it, so it is unbound in a fresh kernel and whatever an
\* earlier session left (a set of known words) otherwise.
WvUnbound == [bound |-> FALSE, keys |-> {}]
KernelWv == {WvUnbound} \cup {[bound |-> TRUE, keys |-> k] : k \in SUBSET Range(Words)}

\* train_test_split(df, test_size=0.2): ceil(0.2 n) rows go to the test split.
NTest(n) == (2 * n + 9) \div 10
TrainIdx == DOMAIN df \ testIdx

RECURSIVE Flatten(_, _)
Flatten(texts, i) == IF i > Len(texts) THEN << >> ELSE texts[i] \o Flatten(texts, i + 1)

\* Tokenizer.fit_on_texts(texts): every word of the texts gets an id, the ids
\* in the order of falling count, words of equal count in the order they were
\* first seen.
WordIndex(texts) ==
  LET flat == Flatten(texts, 1)
      vocab == Range(flat)
      count(w) == Cardinality({i \in DOMAIN flat : flat[i] = w})
      first(w) == CHOOSE i \in DOMAIN flat : flat[i] = w /\ \A j \in 1..(i - 1) : flat[j] # w
      rank(w) == 1 + Cardinality({v \in vocab :
                       \/ count(v) > count(w)
                       \/ count(v) = count(w) /\ first(v) < first(w)})
  IN [r \in 1..Cardinality(vocab) |-> CHOOSE w \in vocab : rank(w) = r]

\* tokenizer.fit_on_texts(df['text']): the texts the vocabulary is built from.
FitCorpus == df

\* tokenizer.texts_to_sequences: the ids of a text's words; a word without
\* an id is left out.
Id(wi, w) == CHOOSE r \in DOMAIN wi : wi[r] = w
TextToSequence(wi, text) ==
  LET known == SelectSeq(text, LAMBDA w : w \in Range(wi))
  IN [i \in DOMAIN known |-> Id(wi, known[i])]

\* pad_sequences(sequences, maxlen=n): padding='pre', truncating='pre', value 0.
PadSequencesPost(seq, n) ==
  IF Len(seq) >= n THEN SubSeq(seq, 1, n)
  ELSE seq \o [i \in 1..(n - Len(seq)) |-> 0]
PadSequences(seq, n) ==
  IF Len(seq) >= n THEN SubSeq(seq, Len(seq) - n + 1, Len(seq))
  ELSE [i \in 1..(n - Len(seq)) |-> 0] \o seq

\* The body of the loop of cell 2e222766, for one word:
\*   if word in wv: embedding_matrix[index] = wv.get_vector(word)
\*   else:          embedding_matrix[index] = np.zeros(wv.vector_size)
EmbeddingBranchAlwaysVector(word, w) == "get_vector"
EmbeddingBranch(word, w) == IF word \in w.keys THEN "get_vector" ELSE "zeros"

RECURSIVE LoopStatements(_, _, _)
LoopStatements(wi, i, w) ==
  IF i > Len(wi) THEN << >>
  ELSE <<"for", "if", EmbeddingBranch(wi[i], w)>> \o LoopStatements(wi, i + 1, w)

\* Cell ebf07db0: the dataset is loaded.
LoadDataset(d) ==
  /\ textPc = "load"
  /\ df' = d
  /\ executed' = executed \o <<"dataset_load", "astype", "dropna", "loc">>
  /\ textPc' = "split"
  /\ UNCHANGED <<testIdx, word_index, x_train, x_test, wv, rx, restOfText>>

\* Cell abad53d3: train_test_split, unseeded: any NTest rows are the test
\* split; it raises when the training split would be empty.
TrainTestSplit(test) ==
  /\ textPc = "split"
  /\ Cardinality(test) = NTest(Len(df))
  /\ executed' = Append(executed, "train_test_split")
  /\ IF Len(df) - NTest(Len(df)) = 0
     THEN textPc' = "error" /\ UNCHANGED testIdx
     ELSE textPc' = "tokenize" /\ testIdx' = test
  /\ UNCHANGED <<df, word_index, x_train, x_test, wv, rx, restOfText>>

\* Cell 718fb948: tokenizer.fit_on_texts(df['text']).
FitOnTexts ==
  /\ textPc = "tokenize"
  /\ word_index' = WordIndex(FitCorpus)
  /\ executed' = Append(executed, "fit_on_texts")
  /\ textPc' = "pad"
  /\ UNCHANGED <<df, testIdx, x_train, x_test, wv, rx, restOfText>>

\* Cell a705e757: both splits are turned into id sequences and padded.
PadCell ==
  /\ textPc = "pad"
  /\ x_train' = [i \in TrainIdx |-> PadSequences(TextToSequence(word_index, df[i]), maxlen)]
  /\ x_test' = [i \in testIdx |-> PadSequences(TextToSequence(word_index, df[i]), maxlen)]
  /\ executed' = executed \o <<"pad_sequences", "pad_sequences">>
  /\ textPc' = "embed"
  /\ UNCHANGED <<df, testIdx, word_index, wv, rx, restOfText>>

\* Cell 2e222766: the embedding matrix. Its first statement reads wv: a
\* NameError when the kernel does not hold it, else the loop over word_index.
EmbeddingCell(w) ==
  /\ textPc = "embed"
  /\ wv' = w
  /\ IF w.bound
     THEN /\ executed' = executed \o <<"embedding_matrix_shape", "np.zeros">>
                           \o LoopStatements(word_index, 1, w)
          /\ textPc' = "done"
     ELSE /\ executed' = Append(executed, "embedding_matrix_shape")
          /\ textPc' = "error"
  /\ UNCHANGED <<df, testIdx, word_index, x_train, x_test, rx, restOfText>>

NextText ==
  \/ \E d \in Datasets : LoadDataset(d)
  \/ \E test \in SUBSET DOMAIN df : TrainTestSplit(test)
  \/ FitOnTexts
  \/ PadCell
  \/ \E w \in KernelWv : EmbeddingCell(w)

(***************************************************************************)
(*        tokenize OF THE TRANSFORMER NOTEBOOK  (05-roberta.ipynb)         *)
(***************************************************************************)

\* tokenizer(text, return_tensors='np', max_length=284, truncation=True, padding=True)
max_length == 284

TokenizeLengths == Lengths \cup ((max_length - 1)..(max_length + MaxOver))
Batches ==
  UNION {[1..n -> {Text(l, k) : l \in TokenizeLengths, k \in 0..(Len(Words) - 1)}] :
           n \in 1..MaxTexts}

Longest(rows) ==
  CHOOSE l \in {Len(rows[i]) : i \in DOMAIN rows} : \A i \in DOMAIN rows : Len(rows[i]) <= l

\* truncation=True cuts a sequence longer than max_length to its first
\* max_length tokens; padding=True fills each sequence, at its end, to the
\* length of the longest sequence of the batch.
Tokenize(batch) ==
  LET cut == [i \in DOMAIN batch |->
                IF Len(batch[i]) > max_length THEN SubSeq(batch[i], 1, max_length)
                ELSE batch[i]]
  IN [i \in DOMAIN cut |->
        cut[i] \o [j \in 1..(Longest(cut) - Len(cut[i])) |-> "<pad>"]]

\* Cell 0c960fc6: x_train = tokenize(x_train.tolist()).
RobertaTokenize(batch) ==
  /\ rx = << >>
  /\ rx' = Tokenize(batch)
  /\ UNCHANGED <<df, testIdx, word_index, x_train, x_test, wv, executed, textPc, restOfText>>

NextTokenize == \E batch \in Batches : RobertaTokenize(batch)

(***************************************************************************)
(*   THE OPTIMIZER SCHEDULE AND model.fit OF THE TRANSFORMER NOTEBOOK      *)
(*   (05-roberta.ipynb, cells 23119738 and f0ede7e9)                       *)
(***************************************************************************)

\* epochs = 3; validation_split = 0.2 (in percent); batch_size = 32
epochs == 3
validation_split == 20
batch_size == 32

\* The train split of stanfordnlp/imdb, which cell be41062a loads.
ImdbTrainSize == 25000

\* Bound: besides the dataset's own size, x_train has 2..MaxSize texts.
MaxSize == 100
Sizes == (2..MaxSize) \cup {ImdbTrainSize}

\* n * (1 - validation_split), rounded down: the samples that are not held
\* out for validation.  model.fit splits at the same place.
TrainPart(n) == (n * (100 - validation_split)) \div 100

\* num_train_steps = epochs * (len(x_train['input_ids']) * (1 - validation_split) // batch_size)
NumTrainSteps(n) == epochs * (TrainPart(n) \div batch_size)
\* num_warmup_steps = int(num_train_steps * 0.1)
NumWarmupSteps(steps) == steps \div 10

\* Cell 23119738: the schedule of the optimizer is laid out for x_train.
CreateOptimizer(n) ==
  /\ stepsPc = "optimizer"
  /\ n_texts' = n
  /\ num_train_steps' = NumTrainSteps(n)
  /\ num_warmup_steps' = NumWarmupSteps(NumTrainSteps(n))
  /\ stepsPc' = "fit"
  /\ UNCHANGED <<iterations, fit_epoch, seen, restOfSteps>>

\* The samples of the next batch: batch_size of them, or what is left of
\* the epoch when that is less.
BatchLen == IF TrainPart(n_texts) - seen < batch_size THEN TrainPart(n_texts) - seen
            ELSE batch_size

\* Cell f0ede7e9, one train step of model.fit: a batch of the training part
\* is taken and the optimizer applies its gradients once; the epoch ends
\* with the batch that exhausts the training part, fit with the last epoch.
TrainStep ==
  /\ stepsPc = "fit"
  /\ iterations' = iterations + 1
  /\ LET last == seen + BatchLen = TrainPart(n_texts)
     IN /\ seen' = IF last THEN 0 ELSE seen + BatchLen
        /\ fit_epoch' = IF last THEN fit_epoch + 1 ELSE fit_epoch
        /\ stepsPc' = IF last /\ fit_epoch + 1 = epochs THEN "returned" ELSE "fit"
  /\ UNCHANGED <<n_texts, num_train_steps, num_warmup_steps, restOfSteps>>

NextSteps ==
  \/ \E n \in Sizes : CreateOptimizer(n)
  \/ TrainStep

(***************************************************************************)
(*   THE DATA-PREPARATION CELL OF THE LSTM NOTEBOOK, VALUE BY VALUE        *)
(*   (04-lstm.ipynb, cell ebf07db0)                                        *)
(***************************************************************************)

\* Bound: the file holds 1..MaxRows records.
MaxRows == 3

\* A record of the file has four fields: id, entity, sentiment, text.  An
\* empty field is a missing value.
CsvSentiments == {"", "Positive", "Irrelevant"}
CsvTexts == {"", "good"}
CsvRecords == {<<"2401", "Borderlands", s, t>> : s \in CsvSentiments, t \in CsvTexts}
CsvFiles == UNION {[1..n -> CsvRecords] : n \in 1..MaxRows}

\* A value of the frame: the missing value NaN, or a string.
NaN == [isna |-> TRUE, str |-> ""]
Str(s) == [isna |-> FALSE, str |-> s]

\* kagglehub.dataset_load(PANDAS, ...): pandas reads an empty field as NaN;
\* the index numbers the records.
DatasetLoad(file) ==
  [i \in DOMAIN file |->
     [index |-> i,
      cols |-> [c \in 1..4 |-> IF file[i][c] = "" THEN NaN ELSE Str(file[i][c])]]]

\* df = df[df.columns[[2, 3]]]; df.columns = ['sentiment', 'text']
SelectColumns(d) ==
  [i \in DOMAIN d |->
     [index |-> d[i].index, sentiment |-> d[i].cols[3], text |-> d[i].cols[4]]]

\* Series.astype(str): str() of each value; str(nan) is the string 'nan'.
AstypeStr(v) == IF v.isna THEN Str("nan") ELSE v
AstypeText(d) == [i \in DOMAIN d |-> [d[i] EXCEPT !.text = AstypeStr(@)]]
AstypeSentiment(d) == [i \in DOMAIN d |-> [d[i] EXCEPT !.sentiment = AstypeStr(@)]]

\* df.dropna(): the rows without a missing value, in order.
HasNa(r) == r.sentiment.isna \/ r.text.isna
Dropna(d) == SelectSeq(d, LAMBDA r : ~HasNa(r))

\* df.loc[df['sentiment'] != 'Irrelevant']
LocRelevant(d) == SelectSeq(d, LAMBDA r : r.sentiment # Str("Irrelevant"))

\* Cell ebf07db0, statement by statement in the order of the cell.
PrepareData(file) ==
  /\ prepPc = "load"
  /\ csv' = file
  /\ frame' = LocRelevant(Dropna(AstypeSentiment(AstypeText(SelectColumns(DatasetLoad(file))))))
  /\ prepPc' = "done"
  /\ UNCHANGED restOfPrep

NextPrep == \E file \in CsvFiles : PrepareData(file)

(***************************************************************************)
(*                          THE SPECIFICATIONS                             *)
(***************************************************************************)

\* The state after construction: no event yet; three fresh kernels, each
\* about to run the first code cell of its notebook; fit at on_train_begin;
\* the search not yet begun.
Init ==
  /\ events = << >>
  /\ runs = << >>
  /\ artifacts = {}
  /\ site = NoSite
  /\ pc = [nb \in Notebooks |-> 1]
  /\ env = [nb \in Notebooks |-> FreshKernel]
  /\ status = [nb \in Notebooks |-> "running"]
  /\ log = [nb \in Notebooks |-> << >>]
  /\ report = [nb \in Notebooks |-> NoReport]
  /\ execCount = [nb \in Notebooks |-> [c \in DOMAIN Cells(nb) |-> 0]]
  /\ raisedAt = [nb \in Notebooks |-> 0]
  /\ raisedKind = [nb \in Notebooks |-> ""]
  /\ dropout = [nb \in Notebooks |-> NoModel]
  /\ epoch = 0
  /\ wait = 0
  /\ best = -1
  /\ best_epoch = 0
  /\ best_weights = 0
  /\ weights = 0
  /\ stop_training = FALSE
  /\ fitState = "training"
  /\ lastImproved = 0
  /\ seenMax = -1
  /\ rng = 0
  /\ draws = 0
  /\ sampled = << >>
  /\ nextTask = 0
  /\ inFlight = {}
  /\ searchState = "new"
  /\ random_state = 0
  /\ results = [t \in 1..NTasks |-> NoScore]
  /\ best_index_ = 0
  /\ best_params_ = NoParams
  /\ best_estimator_ = NoEstimator
  /\ prediction = [estimator |-> NoEstimator, on |-> ""]
  /\ df = << >>
  /\ testIdx = {}
  /\ word_index = << >>
  /\ x_train = << >>
  /\ x_test = << >>
  /\ wv = WvUnbound
  /\ executed = << >>
  /\ textPc = "load"
  /\ rx = << >>
  /\ n_texts = 0
  /\ num_train_steps = 0
  /\ num_warmup_steps = 0
  /\ iterations = 0
  /\ fit_epoch = 0
  /\ seen = 0
  /\ stepsPc = "optimizer"
  /\ csv = << >>
  /\ frame = << >>
  /\ prepPc = "load"

\* Each part runs by itself; the others rest in their initial state.
SpecCI == Init /\ [][NextCI]_vars
SpecNb == Init /\ [][NextNb]_vars
SpecFit == Init /\ [][NextFit]_vars
\* model.fit is one call that runs its loop to the end: no epoch waits forever.
SpecFitFair == SpecFit /\ WF_vars(NextFit)
SpecSearch == Init /\ [][NextSearch]_vars
SpecText == Init /\ [][NextText]_vars
SpecTokenize == Init /\ [][NextTokenize]_vars
SpecSteps == Init /\ [][NextSteps]_vars
SpecPrep == Init /\ [][NextPrep]_vars

Next ==
  \/ NextCI \/ NextNb \/ NextFit \/ NextSearch \/ NextText \/ NextTokenize \/ NextSteps
  \/ NextPrep
Spec == Init /\ [][Next]_vars

(***************************************************************************)
(*                        THE WORKFLOW'S PROPERTIES                        *)
(***************************************************************************)

PushToMaster == [type |-> "push", branch |-> "master"]

\* C1: for any sequence of pushes, at most one run of the deploy workflow
\* (concurrency group 'pages') is in progress at any time: two deployments
\* never overlap.
C1_AtMostOneRunInProgress == Cardinality(InProgress) <= 1

\* C1, its case: a run is in progress while the run of a later push waits.
C1_Witness == \E q \in InProgress : \E r \in Pending : q < r

Ran(st) == st \in {"running", "success", "failure"}
StepIndex(name) == CHOOSE i \in DOMAIN Steps : Steps[i] = name

\* C3: within one run the steps execute one at a time, in the order of the
\* file (checkout, install tool, build, upload, deploy among them); a step
\* starts only after every earlier step has completed successfully, so the
\* deploy step never runs after a failed or skipped build or upload.
C3_StepsInOrderAfterSuccess ==
  /\ StepIndex("checkout") < StepIndex("install-mystmd")
  /\ StepIndex("install-mystmd") < StepIndex("build-html")
  /\ StepIndex("build-html") < StepIndex("upload-pages-artifact")
  /\ StepIndex("upload-pages-artifact") < StepIndex("deploy-pages")
  /\ \A r \in DOMAIN runs :
       /\ Cardinality({i \in 1..NSteps : runs[r].steps[i] = "running"}) <= 1
       /\ \A i \in 1..NSteps : \A j \in 1..(i - 1) :
            /\ runs[r].steps[i] # "waiting" => runs[r].steps[j] \notin {"waiting", "running"}
            /\ Ran(runs[r].steps[i]) => runs[r].steps[j] = "success"

\* C3, its case: a run whose build failed has come to its deploy step, and
\* another run has deployed.
C3_Witness ==
  /\ \E r \in DOMAIN runs :
       runs[r].steps[BuildStep] = "failure" /\ runs[r].steps[DeployStep] = "skipped"
  /\ \E r \in DOMAIN runs : runs[r].steps[DeployStep] = "success"

\* C4: the workflow is triggered on push to the repository's main branch,
\* which the workflow file names master: every such push starts a run, and a
\* push to any other branch, or any other event, starts none.
C4_RunsArePushesToMaster ==
  /\ \A r \in DOMAIN runs : events[runs[r].event] = PushToMaster
  /\ \A q, r \in DOMAIN runs : runs[q].event = runs[r].event => q = r
  /\ \A e \in DOMAIN events :
       events[e] = PushToMaster => \E r \in DOMAIN runs : runs[r].event = e

\* C4, its case: a push to master, a push to another branch and another
\* event on master have happened.
C4_Witness ==
  /\ PushToMaster \in Range(events)
  /\ [type |-> "push", branch |-> "main"] \in Range(events)
  /\ [type |-> "pull_request", branch |-> "master"] \in Range(events)

\* C15: during every step of a run the job holds read access to repository
\* contents and write access to the pages deployment, and never holds write
\* access to repository contents.
C15_TokenReadsContentsWritesPages ==
  \A r \in DOMAIN runs :
    (\E i \in 1..NSteps : runs[r].steps[i] # "waiting") =>
      /\ runs[r].token["contents"] = "read"
      /\ runs[r].token["pages"] = "write"
      /\ runs[r].token["contents"] # "write"

\* C15, its case: a run is at its deploy step, the earlier steps done.
C15_Witness == \E r \in DOMAIN runs : runs[r].steps[DeployStep] = "running"

\* C16: the artifact a run deploys is the site built in that same run from
\* the commit it checked out: the upload step uploads the directory the build
\* step wrote, and the deploy step publishes the artifact uploaded by its own
\* run, never one uploaded by another run, under any interleaving of pushes.
C16_DeploysItsOwnBuild ==
  /\ \A a \in artifacts :
       /\ runs[a.run].steps[BuildStep] = "success"
       /\ runs[a.run].dir.path = "./_build/html"
       /\ a.content = runs[a.run].dir.content
       /\ a.content = runs[a.run].workspace
       /\ a.content = Commit(runs[a.run].event)
  /\ site # NoSite =>
       /\ site.artifact \in artifacts
       /\ site.artifact.run = site.run
       /\ runs[site.run].steps[DeployStep] = "success"

\* C16, its case: a second run has deployed while the artifact of the first
\* is still in store.
C16_Witness ==
  /\ site.run = 2
  /\ \E a \in artifacts : a.run = 1

\* C17: a run in progress is never cancelled by a later push: once started
\* it stays in progress until it completes with its own success or failure.
C17_InProgressNeverCancelled ==
  [][\A r \in DOMAIN runs :
       runs[r].state = "in_progress" => runs'[r].state \in {"in_progress", "completed"}]_vars

\* C17, its case: a run is in progress, a later push has arrived and waits,
\* and a push between them was dropped from the queue.
C17_Witness ==
  \E q, c, r \in DOMAIN runs :
    /\ q < c /\ c < r
    /\ runs[q].state = "in_progress"
    /\ runs[c].state = "cancelled"
    /\ runs[r].state = "pending"

\* The runs' steps are taken eventually; pushes need never come.
SpecCIFair ==
  /\ SpecCI
  /\ WF_vars(\E r \in DOMAIN runs : StartRun(r))
  /\ WF_vars(\E r \in DOMAIN runs : StepStart(r))
  /\ WF_vars(\E r \in DOMAIN runs, ok \in BOOLEAN : StepEnd(r, ok))
  /\ WF_vars(\E r \in DOMAIN runs : Finish(r))

NoStepFailed == \A r \in DOMAIN runs : ~JobFailed(runs[r])
LastPush == CHOOSE e \in DOMAIN events :
              events[e] = PushToMaster /\ \A f \in DOMAIN events : events[f] = PushToMaster => f <= e
LastPushDeployed ==
  PushToMaster \in Range(events) => site.artifact.content = Commit(LastPush)

\* C18: under fairness, once pushes stop and no step fails, the commit of
\* the most recent push is eventually deployed: a waiting run is dropped only
\* when a newer push replaces it, so the last push is never lost.
C18_LastPushEventuallyDeployed ==
  /\ []NoStepFailed => <>[]LastPushDeployed
  /\ [](\A r \in DOMAIN runs : runs[r].state = "cancelled" =>
          \E q \in DOMAIN runs : q > r)

\* C18, its case: three pushes came while the first ran; the second was
\* dropped, and the third has been deployed.
C18_Witness ==
  /\ Len(runs) >= 3
  /\ runs[Len(runs) - 1].state = "cancelled"
  /\ site.run = Len(runs)
  /\ NoStepFailed

(***************************************************************************)
(*                       THE NOTEBOOKS' PROPERTIES                         *)
(***************************************************************************)

\* C2: each notebook is a standalone script: run top to bottom in a fresh
\* kernel, every name a cell reads has been bound by an earlier cell or by an
\* import of that cell, so no cell stops on an undefined name (the names wv
\* and np of the LSTM notebook included).
C2_NoUndefinedName == \A nb \in Notebooks : raisedKind[nb] # "NameError"

\* C5: a failure raised in any notebook cell is not caught: the run stops at
\* that cell in an error state, no later cell is executed, and no cell is
\* executed more than once per run.
C5_FailureStopsTheRun ==
  \A nb \in Notebooks :
    /\ \A c \in DOMAIN Cells(nb) : execCount[nb][c] <= 1
    /\ raisedAt[nb] # 0 =>
         /\ status[nb] = "error"
         /\ pc[nb] = raisedAt[nb]
         /\ \A c \in DOMAIN Cells(nb) : c > raisedAt[nb] => execCount[nb][c] = 0

\* C7: the model that fit trains applies dropout rate 0.3 for both the
\* attention-probability dropout and the hidden dropout: the two config
\* assignments made after from_pretrained take effect in the training.
C7_TrainedWithRaisedDropout ==
  dropout["roberta"].trained # NoRates =>
    dropout["roberta"].trained = Rates(AttentionProbsDropoutProb, HiddenDropoutProb)

Pos(seq, x) == CHOOSE i \in DOMAIN seq : seq[i] = x
CoreStages == <<"load", "vectorize", "instantiate", "fit", "evaluate">>

RECURSIVE StagesOf(_, _, _)
\* The stages of the cells from statement i of cell c on, in order.
StagesOf(cells, c, i) ==
  IF c > Len(cells) THEN << >>
  ELSE IF i > Len(cells[c].stmts) THEN StagesOf(cells, c + 1, 1)
  ELSE IF cells[c].stmts[i].op = "" THEN StagesOf(cells, c, i + 1)
  ELSE <<cells[c].stmts[i].op>> \o StagesOf(cells, c, i + 1)
Last(seq) == seq[Len(seq)]

\* C10 as claimed: each of the three notebooks ends its stage sequence with a
\* plot stage that runs after evaluation.
C10_EveryNotebookEndsWithPlot ==
  \A nb \in Notebooks :
    status[nb] = "done" =>
      /\ Last(log[nb]) = "plot"
      /\ "evaluate" \in Range(log[nb])

\* C10 as amended: only the transformer notebook has a plot stage, its last,
\* which runs right after evaluation; the last stage of the LSTM notebook is
\* the evaluation itself, and the logistic-regression notebook ends with the
\* display of the best-parameters table after evaluation; neither runs a plot.
C10_OnlyRobertaEndsWithPlot ==
  /\ Last(StagesOf(Cells("lstm"), 1, 1)) = "evaluate"
  /\ \A nb \in Notebooks :
       /\ nb # "roberta" => "plot" \notin Range(log[nb])
       /\ status[nb] = "done" =>
            /\ log[nb] = StagesOf(Cells(nb), 1, 1)
            /\ Last(log[nb]) = CASE nb = "roberta" -> "plot"
                                  [] nb = "logreg" -> "table"
                                  [] nb = "lstm" -> "evaluate"
            /\ nb # "lstm" => log[nb][Len(log[nb]) - 1] = "evaluate"

\* C10, its case: notebooks have run to their end.
C10_Witness == status["roberta"] = "done" /\ status["logreg"] = "done"

(***************************************************************************)
(*                     THE PROPERTIES OF THE LSTM FIT                      *)
(***************************************************************************)

\* The epochs run since val_accuracy last improved on its best value.
SinceImproved == epoch - lastImproved

C6_StopsAtFirstStall ==
  /\ epoch <= 35
  /\ fitState = "training" => epoch < 35 /\ SinceImproved < 5 /\ ~stop_training
  /\ fitState = "returned" => epoch = 35 \/ SinceImproved = 5
  /\ stop_training <=> fitState = "returned" /\ SinceImproved = 5

\* C6: LSTM training with the early-stopping callback (monitor val_accuracy,
\* patience 5, epochs 35) always terminates: it runs at most 35 epochs and
\* stops right after the first epoch at which val_accuracy has failed to
\* improve on its best value for 5 consecutive epochs.
C6_FitTerminatesAtFirstStall == [](C6_StopsAtFirstStall) /\ <>(fitState = "returned")

\* C6, its case: the recorded run, stopped after epoch 8 with its best
\* val_accuracy at epoch 3, five epochs before.
C6_Witness ==
  /\ fitState = "returned"
  /\ stop_training
  /\ epoch = 8
  /\ best_epoch = 3
  /\ wait = 5

(***************************************************************************)
(*                 THE PROPERTIES OF THE RANDOMIZED SEARCH                 *)
(***************************************************************************)

FitsOf(c) == {t \in Completed : TaskCandidate(t) = c}

\* C8: the randomized search evaluates exactly 10 candidates, pairwise
\* distinct and each a member of the 3 x 2 x 4 x 4 = 96-combination grid
\* param_grid, each on 5 cross-validation folds, for 50 fits in total.
C8_TenDistinctCandidatesFiftyFits ==
  /\ Cardinality(ParamGrid) = 96
  /\ Len(sampled) <= 10
  /\ LET cand == Candidates
     IN /\ \A c \in DOMAIN cand : cand[c] \in ParamGrid
        /\ \A c, d \in DOMAIN cand : cand[c] = cand[d] => c = d
  /\ searchState \in {"fitting", "done"} => Len(sampled) = 10
  /\ nextTask <= 50
  /\ \A t \in inFlight : TaskCandidate(t) \in DOMAIN sampled /\ TaskFold(t) \in 1..5
  /\ searchState = "done" =>
       /\ Cardinality(Completed) = 50
       /\ \A c \in 1..10 :
            /\ Cardinality(FitsOf(c)) = 5
            /\ {TaskFold(t) : t \in FitsOf(c)} = 1..5

\* C8, its case: a search is done whose sampler drew an index it already
\* held, and drew again.
C8_Witness == searchState = "done" /\ draws > Len(sampled)

(***************************************************************************)
(*                   THE PROPERTIES OF THE TEXT PATH                       *)
(***************************************************************************)

TrainTokens == UNION {Range(df[i]) : i \in TrainIdx}
TestTokens == UNION {Range(df[i]) : i \in testIdx}

\* C11: in the LSTM notebook the tokenizer's vocabulary is built from the
\* training data: the tokens that receive an id are exactly the tokens of the
\* training texts, and texts of the test split contribute no entry.
C11_VocabularyFromTrainingTexts ==
  textPc \in {"pad", "embed", "done"} =>
    /\ Range(word_index) = TrainTokens
    /\ (TestTokens \ TrainTokens) \cap Range(word_index) = {}

\* The ids of the words of row i of df, and what padding to n makes of them.
RowIds(i) == [j \in DOMAIN df[i] |-> CHOOSE r \in DOMAIN word_index : word_index[r] = df[i][j]]
IsPadded(row, ids, n) ==
  /\ Len(row) = n
  /\ \A j \in 1..n :
       row[j] = IF Len(ids) < n
                THEN (IF j <= n - Len(ids) THEN 0 ELSE ids[j - (n - Len(ids))])
                ELSE ids[Len(ids) - n + j]

\* C12: after the padding step every row of x_train and x_test has exactly
\* maxlen = 96 entries: a sequence shorter than 96 is filled with zeros in
\* front of its tokens, a longer one keeps its last 96 tokens.
C12_RowsPaddedToMaxlen ==
  textPc \in {"embed", "done"} =>
    /\ DOMAIN x_train = TrainIdx
    /\ DOMAIN x_test = testIdx
    /\ \A i \in TrainIdx : IsPadded(x_train[i], RowIds(i), 96)
    /\ \A i \in testIdx : IsPadded(x_test[i], RowIds(i), 96)

\* C12, its case: a text shorter than 96 words and one longer than 96 have
\* been padded.
C12_Witness ==
  /\ textPc = "embed"
  /\ \E i \in DOMAIN df : Len(df[i]) \in 1..95
  /\ \E i \in DOMAIN df : Len(df[i]) > 96

\* C13: the transformer notebook pads and truncates its token sequences to
\* the length of the LSTM notebook: no row tokenize returns is longer than the
\* maxlen of pad_sequences, the max_length passed to the tokenizer being equal
\* to it.
C13_TokenizeCutsToLstmMaxlen ==
  \A i \in DOMAIN rx : Len(rx[i]) <= maxlen

\* The statements of the text path on a vocabulary whose words are all in wv.
StraightLine ==
  <<"dataset_load", "astype", "dropna", "loc", "train_test_split", "fit_on_texts",
    "pad_sequences", "pad_sequences", "embedding_matrix_shape", "np.zeros">>
RECURSIVE Times(_, _)
Times(seq, n) == IF n = 0 THEN << >> ELSE seq \o Times(seq, n - 1)
IsPrefix(a, b) == Len(a) <= Len(b) /\ a = SubSeq(b, 1, Len(a))

Total(sel, c) ==
  Score(sel[c], 1) + Score(sel[c], 2) + Score(sel[c], 3) + Score(sel[c], 4) + Score(sel[c], 5)
IsFirstBest(sel, b) ==
  /\ b \in 1..10
  /\ \A d \in 1..10 :
       /\ Total(sel, d) <= Total(sel, b)
       /\ Total(sel, d) = Total(sel, b) => b <= d

\* C19: after the search, best_params_ and best_estimator_ are those of the
\* sampled candidate with the highest mean score over its 5 folds (the first
\* such candidate on a tie), refit on the whole training split, and the
\* classification report is computed from that estimator only.
C19_BestCandidateRefitAndReported ==
  /\ searchState \in {"new", "sampling", "fitting", "done"} =>
       best_index_ = 0 /\ best_estimator_ = NoEstimator
  /\ searchState \in {"refit", "reported"} =>
       /\ IsFirstBest(sampled, best_index_)
       /\ best_params_ = GridPoint(sampled[best_index_])
       /\ best_estimator_ = [params |-> best_params_, fitted_on |-> "x_train"]
  /\ prediction.on # "" <=> searchState = "reported"
  /\ searchState = "reported" =>
       prediction = [estimator |-> best_estimator_, on |-> "x_test"]

\* C19, its case: the report is out, and two candidates shared the highest
\* mean.
C19_Witness ==
  /\ searchState = "reported"
  /\ \E d \in 1..10 : d # best_index_ /\ Total(sampled, d) = Total(sampled, best_index_)

\* The candidates a search seeded with x samples, one draw after the other.
RECURSIVE SampleFrom(_, _)
SampleFrom(x, sel) ==
  IF Len(sel) = 10 THEN sel
  ELSE LET y == (12 * x + 3) % 127
       IN SampleFrom(y, IF (y % 96) \in Range(sel) THEN sel ELSE Append(sel, y % 96))

\* C20: the selected best parameters do not depend on the order in which the
\* parallel fits complete: for a fixed random_state and fixed data, every
\* interleaving of the 50 fits yields the same candidate set and the same
\* best_params_; each score is recorded for its own candidate and fold.
C20_SelectionIndependentOfCompletionOrder ==
  /\ \A t \in 1..50 :
       results[t] = IF t \in Completed
                    THEN Score(sampled[((t - 1) \div 5) + 1], ((t - 1) % 5) + 1)
                    ELSE NoScore
  /\ searchState \in {"fitting", "done", "refit", "reported"} =>
       sampled = SampleFrom(random_state, << >>)
  /\ searchState \in {"refit", "reported"} =>
       LET sel == SampleFrom(random_state, << >>)
       IN \E b \in 1..10 : IsFirstBest(sel, b) /\ best_params_ = GridPoint(sel[b])

\* C20, its case: a fit has completed before a fit dispatched earlier.
C20_Witness ==
  \E t \in inFlight : \E u \in Completed : t < u /\ results[u] # NoScore

(***************************************************************************)
(*                THE WEIGHTS THE LSTM FIT RETURNS WITH  (SpecFit)         *)
(***************************************************************************)

\* C22: when the LSTM fit has returned, by early stopping or after epoch 35,
\* the model holds the weights of the earliest epoch that reached the
\* highest val_accuracy observed, not those of the last epoch run.
C22_ReturnsBestWeights ==
  fitState = "returned" => weights = lastImproved

\* Fit ran all 35 epochs without an early stop, and the best epoch was not
\* the last one.
C22_Witness ==
  /\ fitState = "returned"
  /\ ~stop_training
  /\ epoch = Epochs
  /\ lastImproved < epoch
  /\ weights = lastImproved

(***************************************************************************)
(*             PROPERTIES OF THE OPTIMIZER SCHEDULE  (SpecSteps)           *)
(***************************************************************************)

\* C21: for every size of x_train, the num_train_steps handed to
\* create_optimizer equals the number of optimizer steps model.fit has
\* taken when it returns after its 3 epochs, and num_warmup_steps does not
\* exceed num_train_steps.
C21_ScheduleCoversFit ==
  stepsPc = "returned" =>
    /\ iterations = num_train_steps
    /\ num_warmup_steps <= num_train_steps

(***************************************************************************)
(*             PROPERTIES OF THE DATA PREPARATION  (SpecPrep)              *)
(***************************************************************************)

\* C23: after the data-preparation cell of the LSTM notebook no row of df
\* stems from a record of the file whose text or sentiment was missing.
C23_NoRowFromMissingValue ==
  prepPc = "done" =>
    \A i \in DOMAIN frame :
      /\ csv[frame[i].index][3] # ""
      /\ csv[frame[i].index][4] # ""

====
